---- MODULE Spec2Model ----
(***************************************************************************)
(* Model of the Generation Cache Gateway (PythonConnectors/GPT.py): the    *)
(* Lambda handler and its routes over the DynamoDB table and the OpenAI    *)
(* client, and the response normalizer with Python's json.loads, int()     *)
(* and float() as it uses them; then the update of a user (User.py) and    *)
(* the creation of a membership (Memberships.py) over their tables.        *)
(*                                                                         *)
(* Text is a sequence of one-character strings.  A JSON value is a record  *)
(* of one shape, [t, n, e, s, items]:                                      *)
(*   t = "int"    n is the integer                                         *)
(*   t = "float"  the number is n / 10^e, with no trailing zero digit      *)
(*   t = "str"    s is the text                                            *)
(*   t = "list"   items are the elements                                   *)
(*   t = "map"    items are the members, each a "pair" (s the key, items   *)
(*                the one value), in insertion order                       *)
(***************************************************************************)
EXTENDS Integers, Sequences, FiniteSets, TLC

VARIABLES
    store,      \* the DynamoDB table: keyword -> item, or NoItem
    clock,      \* datetime.utcnow().timestamp(), in whole seconds
    purgeKey,   \* os.environ.get("PURGE_KEY"): a text, or NoSecret when unset
    req,        \* the Lambda invocations in flight, one record per slot
    started,    \* number of invocations received so far
    nSrc,       \* normalizer run: where the input came from
    nRaw,       \* normalizer run: the local variable raw
    nPc,        \* normalizer run: position in normalize_gpt_response
    nParses,    \* normalizer run: number of json.loads calls that succeeded
    nOut,       \* normalizer run: the returned value
    users,      \* User.py: the User table, email -> item, or NoUser
    ureq,       \* User.py: the invocation in flight
    uStarted,   \* User.py: number of invocations received so far
    memberships,    \* Memberships.py: the Memberships table, email -> item
    mreq,       \* Memberships.py: the invocations in flight, one per slot
    mStarted    \* Memberships.py: number of invocations received so far

vars ==
    <<store, clock, purgeKey, req, started, nSrc, nRaw, nPc, nParses, nOut,
      users, ureq, uStarted, memberships, mreq, mStarted>>
userVars == <<users, ureq, uStarted>>
memberVars == <<memberships, mreq, mStarted>>
crudVars == <<users, ureq, uStarted, memberships, mreq, mStarted>>
gwVars == <<store, clock, purgeKey, req, started>>
normVars == <<nSrc, nRaw, nPc, nParses, nOut>>

-----------------------------------------------------------------------------
(* Bounds *)

MaxLen == 3          \* longest raw text enumerated character by character
MaxLayers == 2       \* most JSON string-encoding layers wrapped around an input
MaxStrLen == 2       \* longest string value whose encoding is an input
MaxRequests == 2     \* invocations received in one behaviour
MaxClock == 1        \* largest timestamp
MaxUserRequests == 3      \* User.py invocations received in one behaviour
MaxMemberRequests == 3    \* Memberships.py invocations received in one behaviour

-----------------------------------------------------------------------------
(* Text *)

QUOTE == "\""
BSL == "\\"
SPACE == " "

Digits == {"0", "1", "2", "3", "4", "5", "6", "7", "8", "9"}

DigitVal(c) ==
    CASE c = "0" -> 0 [] c = "1" -> 1 [] c = "2" -> 2 [] c = "3" -> 3
      [] c = "4" -> 4 [] c = "5" -> 5 [] c = "6" -> 6 [] c = "7" -> 7
      [] c = "8" -> 8 [] c = "9" -> 9

DigitChar(d) == <<"0", "1", "2", "3", "4", "5", "6", "7", "8", "9">>[d + 1]

RECURSIVE Pow10(_)
Pow10(k) == IF k = 0 THEN 1 ELSE 10 * Pow10(k - 1)

\* str.strip(): leading and trailing whitespace removed
RECURSIVE LStrip(_)
LStrip(s) == IF Len(s) > 0 /\ s[1] = SPACE THEN LStrip(Tail(s)) ELSE s

RECURSIVE RStrip(_)
RStrip(s) ==
    IF Len(s) > 0 /\ s[Len(s)] = SPACE THEN RStrip(SubSeq(s, 1, Len(s) - 1)) ELSE s

Strip(s) == RStrip(LStrip(s))

\* str.lower()
LowerChar(c) ==
    CASE c = "A" -> "a" [] c = "B" -> "b" [] c = "E" -> "e" [] c = "R" -> "r"
      [] c = "T" -> "t" [] c = "U" -> "u" [] OTHER -> c

Lower(s) == [i \in 1..Len(s) |-> LowerChar(s[i])]

\* length of the run of digits of s that starts at position i
RECURSIVE DigitRun(_, _)
DigitRun(s, i) ==
    IF i <= Len(s) /\ s[i] \in Digits THEN 1 + DigitRun(s, i + 1) ELSE 0

\* the number written by the len digits of s from position i
RECURSIVE DigitsVal(_, _, _)
DigitsVal(s, i, len) ==
    IF len = 0 THEN 0
    ELSE 10 * DigitsVal(s, i, len - 1) + DigitVal(s[i + len - 1])

\* first position from i on that holds no whitespace
RECURSIVE SkipWs(_, _)
SkipWs(s, i) == IF i <= Len(s) /\ s[i] = SPACE THEN SkipWs(s, i + 1) ELSE i

-----------------------------------------------------------------------------
(* JSON values *)

MkVal(t, n, e, s, items) == [t |-> t, n |-> n, e |-> e, s |-> s, items |-> items]

NoValue == MkVal("none", 0, 0, <<>>, <<>>)
\* in the place of a returned value: the call raised
RaisedValue == MkVal("raise", 0, 0, <<>>, <<>>)
IntV(n) == MkVal("int", n, 0, <<>>, <<>>)
StrV(s) == MkVal("str", 0, 0, s, <<>>)
ListV(items) == MkVal("list", 0, 0, <<>>, items)
MapV(members) == MkVal("map", 0, 0, <<>>, members)
PairV(k, v) == MkVal("pair", 0, 0, k, <<v>>)

\* a float from its decimal digits: n / 10^e, trailing zero digits dropped
RECURSIVE FloatV(_, _)
FloatV(n, e) ==
    IF e > 0 /\ n % 10 = 0 THEN FloatV(n \div 10, e - 1)
    ELSE MkVal("float", n, e, <<>>, <<>>)

\* dict[key] = value: a key already present keeps its place
MapPut(members, k, v) ==
    IF \E i \in 1..Len(members) : members[i].s = k
    THEN [i \in 1..Len(members) |->
            IF members[i].s = k THEN PairV(k, v) ELSE members[i]]
    ELSE Append(members, PairV(k, v))

-----------------------------------------------------------------------------
(* json.loads, on texts of the characters used here: the escapes of a      *)
(* string are \" and \\, whitespace is the space, and the literals null,   *)
(* true, false, NaN and Infinity and the exponent of a number cannot be    *)
(* written.  A result is [ok, v, next]: next is the position after the     *)
(* value.  ok = FALSE with next = 0 stands for json.JSONDecodeError, with   *)
(* next = -1 for the RecursionError of the scanner, which is no            *)
(* JSONDecodeError.                                                        *)

ParseFail == [ok |-> FALSE, v |-> NoValue, next |-> 0]
ParseRaise == [ok |-> FALSE, v |-> NoValue, next |-> -1]
Raised(r) == ~r.ok /\ r.next = -1

\* the nesting the scanner accepts: it enters a recursive call for each array
\* or object it opens, up to sys.getrecursionlimit() (1000), scaled down here
RecursionLimit == 2
ParseOk(v, next) == [ok |-> TRUE, v |-> v, next |-> next]

\* NUMBER_RE: (-?(?:0|[1-9]\d*))(\.\d+)?  int without a fraction, else float
\* length of the integer part, (?:0|[1-9]\d*), at position j
IntLen(s, j) ==
    IF DigitRun(s, j) = 0 THEN 0 ELSE IF s[j] = "0" THEN 1 ELSE DigitRun(s, j)

\* number of digits of the fraction, (\.\d+)?, at position k
FracLen(s, k) == IF k <= Len(s) /\ s[k] = "." THEN DigitRun(s, k + 1) ELSE 0

NumberValue(s, j, sign, ilen, flen) ==
    IF ilen = 0 THEN ParseFail
    ELSE IF flen = 0 THEN ParseOk(IntV(sign * DigitsVal(s, j, ilen)), j + ilen)
    ELSE ParseOk(FloatV(sign * (DigitsVal(s, j, ilen) * Pow10(flen)
                                  + DigitsVal(s, j + ilen + 1, flen)), flen),
                 j + ilen + 1 + flen)

NumberFrom(s, j, sign, ilen) == NumberValue(s, j, sign, ilen, FracLen(s, j + ilen))

ParseNumber(s, i) ==
    IF i <= Len(s) /\ s[i] = "-"
    THEN NumberFrom(s, i + 1, -1, IntLen(s, i + 1))
    ELSE NumberFrom(s, i, 1, IntLen(s, i))

\* the body of a string from position j (after the opening quote)
RECURSIVE ScanString(_, _, _)
ScanString(s, j, acc) ==
    IF j > Len(s) THEN ParseFail
    ELSE IF s[j] = QUOTE THEN ParseOk(StrV(acc), j + 1)
    ELSE IF s[j] = BSL
         THEN IF j + 1 <= Len(s) /\ s[j + 1] \in {QUOTE, BSL}
              THEN ScanString(s, j + 2, Append(acc, s[j + 1]))
              ELSE ParseFail
    ELSE ScanString(s, j + 1, Append(acc, s[j]))

\* the number of arrays and objects open at position i: those opened and
\* not closed in s[j..i-1], outside strings, added to d
RECURSIVE Opened(_, _, _, _)

AfterString(s, r, i, d) == IF r.ok THEN Opened(s, r.next, i, d) ELSE d

Opened(s, j, i, d) ==
    IF j >= i THEN d
    ELSE IF s[j] = QUOTE THEN AfterString(s, ScanString(s, j + 1, <<>>), i, d)
    ELSE IF s[j] \in {"[", "{"} THEN Opened(s, j + 1, i, d + 1)
    ELSE IF s[j] \in {"]", "}"} THEN Opened(s, j + 1, i, d - 1)
    ELSE Opened(s, j + 1, i, d)

DepthAt(s, i) == Opened(s, 1, i, 0)

RECURSIVE ParseValue(_, _)
RECURSIVE ArrayItems(_, _, _)
RECURSIVE ObjectMembers(_, _, _)

\* JSONArray, after an element at position k: "]" ends, "," goes on
ArraySep(s, acc, k) ==
    IF k > Len(s) THEN ParseFail
    ELSE IF s[k] = "]" THEN ParseOk(ListV(acc), k + 1)
    ELSE IF s[k] # "," THEN ParseFail
    ELSE ArrayItems(s, SkipWs(s, k + 1), acc)

ArrayNext(s, acc, r) ==
    IF ~r.ok THEN r ELSE ArraySep(s, Append(acc, r.v), SkipWs(s, r.next))

\* the elements of an array from position j, which holds the next element
ArrayItems(s, j, acc) == ArrayNext(s, acc, ParseValue(s, j))

\* JSONObject, after a member: "}" ends, "," then a quote goes on
ObjectSep(s, acc, n) ==
    IF n > Len(s) THEN ParseFail
    ELSE IF s[n] = "}" THEN ParseOk(MapV(acc), n + 1)
    ELSE IF s[n] # "," \/ SkipWs(s, n + 1) > Len(s) \/ s[SkipWs(s, n + 1)] # QUOTE
    THEN ParseFail
    ELSE ObjectMembers(s, SkipWs(s, n + 1), acc)

ObjectNext(s, acc, k, val) ==
    IF ~val.ok THEN val ELSE ObjectSep(s, MapPut(acc, k, val.v), SkipWs(s, val.next))

\* after the key k, at position c: the colon, then the value
ObjectValue(s, acc, k, c) ==
    IF c > Len(s) \/ s[c] # ":" THEN ParseFail
    ELSE ObjectNext(s, acc, k, ParseValue(s, SkipWs(s, c + 1)))

ObjectColon(s, acc, key) ==
    IF ~key.ok THEN ParseFail ELSE ObjectValue(s, acc, key.v.s, SkipWs(s, key.next))

\* the members of an object from position j, which holds a key's quote
ObjectMembers(s, j, acc) == ObjectColon(s, acc, ScanString(s, j + 1, <<>>))

\* after "{", at position j: "}" for the empty object, else a key's quote
ObjectOpen(s, j) ==
    IF j > Len(s) THEN ParseFail
    ELSE IF s[j] = "}" THEN ParseOk(MapV(<<>>), j + 1)
    ELSE IF s[j] # QUOTE THEN ParseFail
    ELSE ObjectMembers(s, j, <<>>)

\* after "[", at position j: "]" for the empty array, else an element
ArrayOpen(s, j) ==
    IF j <= Len(s) /\ s[j] = "]" THEN ParseOk(ListV(<<>>), j + 1)
    ELSE ArrayItems(s, j, <<>>)

\* scan_once: the value that starts at position i
ParseValue(s, i) ==
    IF i > Len(s) THEN ParseFail
    ELSE IF s[i] = QUOTE THEN ScanString(s, i + 1, <<>>)
    ELSE IF s[i] \in {"{", "["} /\ DepthAt(s, i) >= RecursionLimit THEN ParseRaise
    ELSE IF s[i] = "{" THEN ObjectOpen(s, SkipWs(s, i + 1))
    ELSE IF s[i] = "[" THEN ArrayOpen(s, SkipWs(s, i + 1))
    ELSE ParseNumber(s, i)

\* JSONDecoder.decode: after the value only whitespace may follow
WholeText(s, r) ==
    IF Raised(r) \/ (r.ok /\ SkipWs(s, r.next) = Len(s) + 1) THEN r ELSE ParseFail

\* json.loads(s): one value between optional whitespace, and nothing else
JsonLoads(s) == WholeText(s, ParseValue(s, SkipWs(s, 1)))

-----------------------------------------------------------------------------
(* json.dumps, with its default separators ", " and ": " *)

RECURSIVE NatText(_)
NatText(n) ==
    IF n < 10 THEN <<DigitChar(n)>> ELSE Append(NatText(n \div 10), DigitChar(n % 10))

IntText(n) == IF n < 0 THEN <<"-">> \o NatText(-n) ELSE NatText(n)

\* the e digits of a fraction, zero-padded on the left
RECURSIVE FracText(_, _)
FracText(n, e) ==
    IF e = 0 THEN <<>> ELSE Append(FracText(n \div 10, e - 1), DigitChar(n % 10))

\* float.__repr__ of n / 10^e in positional notation
FloatText(n, e) ==
    LET a == IF n < 0 THEN -n ELSE n
        sign == IF n < 0 THEN <<"-">> ELSE <<>>
    IN  sign \o NatText(a \div Pow10(e)) \o <<".">>
             \o (IF e = 0 THEN <<"0">> ELSE FracText(a % Pow10(e), e))

RECURSIVE EscapeText(_)
EscapeText(s) ==
    IF s = <<>> THEN <<>>
    ELSE (IF Head(s) \in {QUOTE, BSL} THEN <<BSL, Head(s)>> ELSE <<Head(s)>>)
         \o EscapeText(Tail(s))

StrText(s) == <<QUOTE>> \o EscapeText(s) \o <<QUOTE>>

RECURSIVE jsonEncode(_)
RECURSIVE JoinEncoded(_)

\* the items of a list or the members of a map, joined by ", "
JoinEncoded(items) ==
    IF items = <<>> THEN <<>>
    ELSE jsonEncode(Head(items))
         \o (IF Len(items) > 1 THEN <<",", SPACE>> ELSE <<>>)
         \o JoinEncoded(Tail(items))

jsonEncode(v) ==
    CASE v.t = "int" -> IntText(v.n)
      [] v.t = "float" -> FloatText(v.n, v.e)
      [] v.t = "str" -> StrText(v.s)
      [] v.t = "list" -> <<"[">> \o JoinEncoded(v.items) \o <<"]">>
      [] v.t = "map" -> <<"{">> \o JoinEncoded(v.items) \o <<"}">>
      [] v.t = "pair" -> StrText(v.s) \o <<":", SPACE>> \o jsonEncode(v.items[1])

-----------------------------------------------------------------------------
(* int(raw) and float(raw); ok = FALSE stands for ValueError *)

Signed(t) == Len(t) >= 1 /\ t[1] \in {"+", "-"}
SignOf(t) == IF Signed(t) /\ t[1] = "-" THEN -1 ELSE 1
AfterSign(t) == IF Signed(t) THEN 2 ELSE 1

IntDigits(t, j, run) ==
    IF run >= 1 /\ j + run = Len(t) + 1
    THEN [ok |-> TRUE, v |-> IntV(SignOf(t) * DigitsVal(t, j, run))]
    ELSE [ok |-> FALSE, v |-> NoValue]

IntOf(t) == IntDigits(t, AfterSign(t), DigitRun(t, AfterSign(t)))

\* int(): whitespace, an optional sign, then digits to the end
PyInt(s) == IntOf(Strip(s))

FloatDigits(t, j, ilen, point, flen) ==
    IF ilen + flen >= 1 /\ j + ilen + (IF point THEN 1 + flen ELSE 0) = Len(t) + 1
    THEN [ok |-> TRUE,
          v |-> FloatV(SignOf(t) * (DigitsVal(t, j, ilen) * Pow10(flen)
                                      + DigitsVal(t, j + ilen + 1, flen)), flen)]
    ELSE [ok |-> FALSE, v |-> NoValue]

FloatFrac(t, j, ilen) ==
    FloatDigits(t, j, ilen, j + ilen <= Len(t) /\ t[j + ilen] = ".", FracLen(t, j + ilen))

FloatOf(t) == FloatFrac(t, AfterSign(t), DigitRun(t, AfterSign(t)))

\* float(): whitespace, an optional sign, digits with an optional point;
\* at least one digit on one side of the point
PyFloat(s) == FloatOf(Strip(s))

Contains(s, c) == \E i \in 1..Len(s) : s[i] = c

\* a mutant: the number tier is skipped
TierResultSkipped(raw, r) == StrV(raw)

\* GPT.py 250-253: the number, or the text itself after ValueError
TierResult(raw, r) == IF r.ok THEN r.v ELSE StrV(raw)

\* GPT.py 245-253: float when the text holds a point, else int; the text
\* itself when that raises ValueError
NumericTier(raw) == TierResult(raw, IF Contains(raw, ".") THEN PyFloat(raw) ELSE PyInt(raw))

\* a mutant: the unwrapped text is not trimmed
UnwrappedUntrimmed(raw, p) ==
    IF Raised(p) THEN [to |-> "raise", raw |-> raw, v |-> RaisedValue]
    ELSE IF ~p.ok THEN [to |-> "break", raw |-> raw, v |-> NoValue]
    ELSE IF p.v.t = "str" THEN [to |-> "continue", raw |-> p.v.s, v |-> NoValue]
    ELSE [to |-> "return", raw |-> raw, v |-> p.v]

\* GPT.py 237-243, after json.loads(raw) gave p:
\*   "continue" with the unwrapped text, "return" a value, "break", or
\*   "raise" when the exception is not the one the except clause names
Unwrapped(raw, p) ==
    IF Raised(p) THEN [to |-> "raise", raw |-> raw, v |-> RaisedValue]
    ELSE IF ~p.ok THEN [to |-> "break", raw |-> raw, v |-> NoValue]
    ELSE IF p.v.t = "str" THEN [to |-> "continue", raw |-> Strip(p.v.s), v |-> NoValue]
    ELSE [to |-> "return", raw |-> raw, v |-> p.v]

\* GPT.py 235-243, one pass of the loop over raw
UnwrapStep(raw) == Unwrapped(raw, JsonLoads(raw))

RECURSIVE UnwrapLoop(_)

LoopOn(u) == IF u.to = "continue" THEN UnwrapLoop(u.raw) ELSE u

UnwrapLoop(raw) == LoopOn(UnwrapStep(raw))

Returned(u) == IF u.to \in {"return", "raise"} THEN u.v ELSE NumericTier(u.raw)

\* normalize_gpt_response(raw_response)
normalize_gpt_response(raw_response) == Returned(UnwrapLoop(Strip(raw_response)))

-----------------------------------------------------------------------------
(* The normalizer as a machine: one step per statement of                  *)
(* normalize_gpt_response, over inputs drawn from bounded sets.            *)

\* the characters of the texts enumerated character by character
Alphabet == {QUOTE, BSL, "5", "0", ".", "+", SPACE, "a", "[", "]"}

\* every text over Alphabet of at most n characters
RECURSIVE Texts(_)
Texts(n) ==
    IF n = 0 THEN {<<>>}
    ELSE LET T == Texts(n - 1)
         IN  T \cup {Append(t, c) : t \in {x \in T : Len(x) = n - 1}, c \in Alphabet}

\* the values whose encodings are fed to the normalizer
IntValues == {IntV(-5), IntV(0), IntV(7), IntV(10)}
FloatValues == {FloatV(55, 1), FloatV(5, 0), FloatV(-25, 2)}
StrValues == {StrV(t) : t \in Texts(MaxStrLen)}
Elements ==
    {IntV(5), FloatV(55, 1), StrV(<<"a">>), StrV(<<SPACE, "5">>), ListV(<<>>),
     ListV(<<IntV(5)>>), MapV(<<PairV(<<"a">>, IntV(1))>>)}
MapKeys == {<<"a">>, <<"b">>, <<SPACE, "k">>}
ListValues ==
    {ListV(<<>>)} \cup {ListV(<<a>>) : a \in Elements}
                  \cup {ListV(<<a, b>>) : a \in Elements, b \in Elements}
MapValues ==
    {MapV(<<>>)} \cup {MapV(<<PairV(k, a)>>) : k \in MapKeys, a \in Elements}
                 \cup UNION {{MapV(<<PairV(k, a), PairV(l, b)>>) :
                                 l \in MapKeys \ {k}, a \in Elements, b \in Elements} :
                             k \in MapKeys}
\* values nested one level deeper than the scanner accepts
DeepValues ==
    {ListV(<<ListV(<<ListV(<<>>)>>)>>),
     ListV(<<MapV(<<PairV(<<"a">>, ListV(<<IntV(5)>>))>>)>>)}
InputValues ==
    IntValues \cup FloatValues \cup StrValues \cup ListValues \cup MapValues \cup DeepValues

\* k JSON string-encoding layers around a text
RECURSIVE WrapLayers(_, _)
WrapLayers(text, k) ==
    IF k = 0 THEN text ELSE WrapLayers(jsonEncode(StrV(text)), k - 1)

\* an input: a text as it is, or the encoding of a value, under some layers
NormInputs ==
    [kind : {"text"}, v : {StrV(t) : t \in Texts(MaxLen)}, layers : 0..MaxLayers]
    \cup [kind : {"value"}, v : InputValues, layers : 0..MaxLayers]

InputText(src) ==
    WrapLayers(IF src.kind = "text" THEN src.v.s ELSE jsonEncode(src.v), src.layers)

NormIdle ==
    /\ nSrc = [kind |-> "none", v |-> NoValue, layers |-> 0]
    /\ nRaw = <<>>
    /\ nPc = "idle"
    /\ nParses = 0
    /\ nOut = NoValue

\* GPT.py 232: raw = raw_response.strip()
NormStrip ==
    /\ nPc = "strip"
    /\ nRaw' = Strip(nRaw)
    /\ nPc' = "loop"
    /\ UNCHANGED <<nSrc, nParses, nOut, gwVars, crudVars>>

\* GPT.py 235-243: one pass of the while loop
NormLoop ==
    /\ nPc = "loop"
    /\ \E u \in {UnwrapStep(nRaw)} :
           /\ nRaw' = u.raw
           /\ nParses' = IF u.to \in {"break", "raise"} THEN nParses ELSE nParses + 1
           /\ nOut' = u.v
           /\ nPc' = CASE u.to = "continue" -> "loop"
                       [] u.to = "return" -> "return_parsed"
                       [] u.to = "break" -> "number"
                       [] u.to = "raise" -> "raised"
    /\ UNCHANGED <<nSrc, gwVars, crudVars>>

\* GPT.py 245-253: the number tier, then the final fallback
NormNumber ==
    /\ nPc = "number"
    /\ nOut' = NumericTier(nRaw)
    /\ nPc' = IF nOut'.t = "str" THEN "return_raw" ELSE "return_number"
    /\ UNCHANGED <<nSrc, nRaw, nParses, gwVars, crudVars>>

NormDone == nPc \in {"return_parsed", "return_number", "return_raw"}

-----------------------------------------------------------------------------
(* The gateway: configuration, table items, events and responses *)

Slots == {1, 2}                     \* Lambda invocations that run concurrently
Keys == {<<"a">>, <<"b">>, <<"c">>} \* the partition keys the table can hold

\* a Scan call returns one page, at most 1 MB of items, and purge_table and
\* list_gpt_entries read only scan['Items'] of the first call: the number of
\* items of this model that fit in a page
ScanPageLimit == 2

NoSecret == <<"<unset>">>           \* os.environ.get("PURGE_KEY") is None
Secrets == {NoSecret, <<>>, <<"s">>}
Tokens == {<<>>, <<"s">>, <<"x">>}  \* query.get("auth", ""): "" when absent

RawKeywords == {<<>>, <<"a">>, <<SPACE, "A">>, <<"b">>}
RawPromos == {<<>>, <<"p", SPACE>>}
RawPrompts == {<<>>, <<SPACE>>, <<"q", SPACE>>}
RawFlags == {<<>>, <<"T", "R", "U", "E">>, <<"f", "a", "l", "s", "e">>}
TrueText == <<"t", "r", "u", "e">>

\* what choices[0].message.content can be
GenTexts ==
    {<<"h", "i", SPACE>>,                                   \* plain text
     <<"[", "5", "]">>,                                     \* a JSON array
     <<"{", QUOTE, "a", QUOTE, ":", "1", "}">>,             \* a JSON object
     <<"7">>,                                               \* a number
     <<QUOTE, "+", "5", QUOTE>>,                            \* a quoted text
     <<"[", "5", ".", "5", "]">>,                           \* an array of a float
     <<"[", "[", "[">>}                                     \* nested too deep

Item(k, response, promo, prompt, createdAt) ==
    [GPT |-> k, response |-> response, promo |-> promo, keyword |-> k,
     prompt |-> prompt, createdAt |-> createdAt]

NoItem == Item(<<>>, NoValue, <<>>, <<>>, -1)

\* in the place of createdAt: the item has no such attribute
NoCreatedAt == -1

\* an item an earlier invocation of generate_and_store wrote; the one under
\* "c" was put into the table without createdAt
SeedItem(k) ==
    Item(k, StrV(<<"o", "l", "d">>), <<>>, <<"q">>, IF k = <<"c">> THEN NoCreatedAt ELSE 0)

EmptyStore == [k \in Keys |-> NoItem]
SeededStore == [k \in Keys |-> SeedItem(k)]

Present(s) == {k \in Keys : s[k] # NoItem}

\* respond(status, body): the body is an item, a list of items, a chat
\* reply, a message or an error
Body(kind, item, list, text) == [kind |-> kind, item |-> item, list |-> list, text |-> text]
NoBody == Body("none", NoItem, <<>>, <<>>)
ItemBody(item) == Body("item", item, <<>>, <<>>)
ListBody(items) == Body("list", NoItem, items, <<>>)
ChatBody(reply) == Body("chat", NoItem, <<>>, reply)
MessageBody == Body("message", NoItem, <<>>, <<>>)
ErrorBody == Body("error", NoItem, <<>>, <<>>)

IdleReq ==
    [pc |-> "idle", op |-> "none", key |-> <<>>, promo |-> <<>>, prompt |-> <<>>,
     cacheOnly |-> FALSE, auth |-> <<>>, status |-> 0, body |-> NoBody,
     gen |-> 0, sent |-> <<>>, client |-> "none", found |-> "none", item |-> NoItem,
     scanned |-> <<>>, puts |-> 0, deleted |-> 0]

\* the inbound events: GET with its query parameters, POST with its body, and
\* a method the handler does not support
Event(method, purge, auth, mode, keyword, promo, text, cacheOnly) ==
    [method |-> method, purge |-> purge, auth |-> auth, mode |-> mode,
     keyword |-> keyword, promo |-> promo, text |-> text, cacheOnly |-> cacheOnly]

PurgeEvents ==
    {Event("GET", "true", a, m, k, <<>>, <<>>, <<>>) :
        a \in Tokens, m \in {"", "list"}, k \in {<<>>, <<"a">>}}
ListEvents == {Event("GET", "", <<>>, "list", k, <<>>, <<>>, <<>>) : k \in {<<>>, <<"a">>}}
GetEvents ==
    {Event("GET", "", <<>>, "", k, p, g, c) :
        k \in RawKeywords, p \in RawPromos, g \in RawPrompts, c \in RawFlags}
PostEvents ==
    {Event("POST", "", <<>>, "", k, p, g, <<>>) :
        k \in RawKeywords, p \in RawPromos, g \in RawPrompts}
ChatEvents == {Event("POST", "", <<>>, "chat", <<>>, <<>>, g, <<>>) : g \in RawPrompts}
OtherEvents == {Event("DELETE", "", <<>>, "", <<>>, <<>>, <<>>, <<>>)}
\* "httpMethod": null, and POST with a body that is null or no JSON text
NullMethod == "<null>"
BadBody == "<no JSON>"
FaultyEvents ==
    {Event(NullMethod, "", <<>>, "", <<>>, <<>>, <<>>, <<>>),
     Event("POST", "", <<>>, BadBody, <<>>, <<>>, <<>>, <<>>)}
Events ==
    PurgeEvents \cup ListEvents \cup GetEvents \cup PostEvents \cup ChatEvents
    \cup OtherEvents \cup FaultyEvents

-----------------------------------------------------------------------------
(* The handler's local steps *)

Respond(q, status, body) == [q EXCEPT !.pc = "done", !.status = status, !.body = body]

\* an exception leaves lambda_handler: the invocation ends without envelope
Unhandled(q) == [q EXCEPT !.pc = "done", !.status = -1, !.body = Body("exception", NoItem, <<>>, <<>>)]

\* GPT.py 60-71: the parameters of get_or_generate and the keyword check
get_or_generate(ev) ==
    LET keyword == Lower(Strip(ev.keyword))
        q == [IdleReq EXCEPT !.op = "get", !.key = keyword,
                             !.promo = Strip(ev.promo), !.prompt = Strip(ev.text),
                             !.cacheOnly = (Lower(ev.cacheOnly) = TrueText)]
    IN  IF keyword = <<>> THEN Respond(q, 400, ErrorBody)
        ELSE [q EXCEPT !.pc = "lookup"]

\* a mutant: the keyword is taken as sent and nothing is checked
generate_and_store_unchecked(ev) ==
    [IdleReq EXCEPT !.op = "post", !.key = ev.keyword, !.promo = Strip(ev.promo),
                    !.prompt = Strip(ev.text), !.pc = "generate"]

\* GPT.py 122-130: the body of generate_and_store and its checks
generate_and_store(ev) ==
    LET keyword == Lower(Strip(ev.keyword))
        gpt_prompt == Strip(ev.text)
        q == [IdleReq EXCEPT !.op = "post", !.key = keyword,
                             !.promo = Strip(ev.promo), !.prompt = gpt_prompt]
    IN  IF keyword = <<>> \/ gpt_prompt = <<>> THEN Respond(q, 400, ErrorBody)
        ELSE [q EXCEPT !.pc = "generate"]

\* GPT.py 161-166: the message of chat_direct and its check
chat_direct(ev) ==
    LET message == Strip(ev.text)
        q == [IdleReq EXCEPT !.op = "chat", !.prompt = message]
    IN  IF message = <<>> THEN Respond(q, 400, ErrorBody)
        ELSE [q EXCEPT !.pc = "chat"]

\* a mutant: the purge runs whatever the token
PurgeAuthorizedAlways(auth_token, secret) == TRUE

\* GPT.py 33: auth_token == os.environ.get("PURGE_KEY")
PurgeAuthorized(auth_token, secret) == auth_token = secret

\* GPT.py 26-56: the dispatch on method, purge flag and mode; .upper() of a
\* null httpMethod raises before the try block, json.loads of the body inside
lambda_handler(ev, secret) ==
    IF ev.method = NullMethod THEN Unhandled([IdleReq EXCEPT !.op = "other"])
    ELSE IF ev.method = "GET"
    THEN IF ev.purge = "true"
         THEN LET q == [IdleReq EXCEPT !.op = "purge", !.auth = ev.auth]
              IN  IF PurgeAuthorized(ev.auth, secret)
                  THEN [q EXCEPT !.pc = "scan"]
                  ELSE Respond(q, 403, ErrorBody)
         ELSE IF ev.mode = "list"
         THEN [IdleReq EXCEPT !.op = "list", !.pc = "list"]
         ELSE get_or_generate(ev)
    ELSE IF ev.method = "POST"
    THEN IF ev.mode = BadBody THEN Respond([IdleReq EXCEPT !.op = "other"], 500, ErrorBody)
         ELSE IF ev.mode = "chat" THEN chat_direct(ev) ELSE generate_and_store(ev)
    ELSE Respond([IdleReq EXCEPT !.op = "other"], 405, ErrorBody)

\* GPT.py 99: json.dumps(gpt_result, indent=2) of the ChatCompletion object the
\* OpenAI client returns, which is no dict, list, str or number: TypeError
ChatCompletionSerializable == FALSE

\* GPT.py 103, 142: message[:200] raises TypeError on a dict or a number
Sliceable(message) == message.t \in {"str", "list"}

\* boto3's serializer refuses a Python float (TypeError) anywhere in an item
RECURSIVE HasFloat(_)
HasFloat(v) ==
    \/ v.t = "float"
    \/ \E i \in 1..Len(v.items) : HasFloat(v.items[i])

\* a mutant: the text is stored as the client returned it
StoredResponseRaw(content) == StrV(Strip(content))

\* GPT.py 101, 141: normalize_gpt_response(...message.content.strip())
StoredResponse(content) == normalize_gpt_response(Strip(content))

\* GPT.py 101-112 and 141-151: the record to write, or 502 when the
\* normalizer or the slicing of the message for the log raises
RecordFor(q, message, now) ==
    IF message = RaisedValue \/ ~Sliceable(message) THEN Respond(q, 502, ErrorBody)
    ELSE [q EXCEPT !.pc = "put", !.item = Item(q.key, message, q.promo, q.prompt, now)]

\* GPT.py 99-112 and 141-151, after the client has returned content: the
\* record to write, or 502 when a statement of the try block raises
AfterCompletion(q, content, now) ==
    IF q.op = "get" /\ ~ChatCompletionSerializable THEN Respond(q, 502, ErrorBody)
    ELSE RecordFor(q, StoredResponse(content), now)

\* the pages a Scan call can return: the first items, in the table's own order
ScanPages(s) ==
    LET P == Present(s)
        n == IF Cardinality(P) < ScanPageLimit THEN Cardinality(P) ELSE ScanPageLimit
    IN  {q \in [1..n -> P] : \A i, j \in 1..n : i # j => q[i] # q[j]}

\* GPT.py 224: key=lambda x: x.get("createdAt", 0)
SortKey(x) == IF x.createdAt = NoCreatedAt THEN 0 ELSE x.createdAt

\* a mutant: an item goes before the items of equal createdAt
RECURSIVE InsertDescUnstable(_, _)
InsertDescUnstable(s, x) ==
    IF s = <<>> THEN <<x>>
    ELSE IF SortKey(Head(s)) > SortKey(x) THEN <<Head(s)>> \o InsertDescUnstable(Tail(s), x)
    ELSE <<x>> \o s

\* sorted(items, key=..., reverse=True) is stable: an item goes after the
\* items of greater or equal key that the scan returned before it
RECURSIVE InsertDesc(_, _)
InsertDesc(s, x) ==
    IF s = <<>> THEN <<x>>
    ELSE IF SortKey(Head(s)) >= SortKey(x) THEN <<Head(s)>> \o InsertDesc(Tail(s), x)
    ELSE <<x>> \o s

RECURSIVE SortDesc(_)
SortDesc(items) ==
    IF items = <<>> THEN <<>>
    ELSE InsertDesc(SortDesc(SubSeq(items, 1, Len(items) - 1)), items[Len(items)])

Range(q) == {q[i] : i \in 1..Len(q)}

-----------------------------------------------------------------------------
(* The gateway's actions: a slot takes an event, then runs its route one   *)
(* call to the table or to the OpenAI client at a time                     *)

GwInit ==
    /\ store \in {EmptyStore, SeededStore}
    /\ clock = 0
    /\ purgeKey \in Secrets
    /\ req = [r \in Slots |-> IdleReq]
    /\ started = 0

\* GPT.py 23-56: an invocation starts and runs up to its first call
Invoke(r) ==
    /\ req[r].pc \in {"idle", "done"}
    /\ started < MaxRequests
    /\ \E q \in {lambda_handler(ev, purgeKey) : ev \in Events} : req' = [req EXCEPT ![r] = q]
    /\ started' = started + 1
    /\ UNCHANGED <<store, clock, purgeKey, normVars, crudVars>>

\* a mutant: a request that carries a prompt regenerates over a hit
AfterGetItemRegenerates(q, item) ==
    IF item # NoItem /\ (q.prompt = <<>> \/ q.cacheOnly)
    THEN Respond([q EXCEPT !.found = "hit"], 200, ItemBody(item))
    ELSE IF item # NoItem THEN [q EXCEPT !.found = "hit", !.pc = "generate"]
    ELSE IF q.cacheOnly THEN Respond([q EXCEPT !.found = "miss"], 404, ErrorBody)
    ELSE IF q.prompt = <<>> THEN Respond([q EXCEPT !.found = "miss"], 400, ErrorBody)
    ELSE [q EXCEPT !.found = "miss", !.pc = "generate"]

\* a mutant: the cacheOnly flag is not read
AfterGetItemIgnoresFlag(q, item) ==
    IF item # NoItem THEN Respond([q EXCEPT !.found = "hit"], 200, ItemBody(item))
    ELSE IF q.prompt = <<>> THEN Respond([q EXCEPT !.found = "miss"], 400, ErrorBody)
    ELSE [q EXCEPT !.found = "miss", !.pc = "generate"]

\* GPT.py 76-91: after get_item answered with item (NoItem: no "Item" key)
AfterGetItem(q, item) ==
    IF item # NoItem THEN Respond([q EXCEPT !.found = "hit"], 200, ItemBody(item))
    ELSE IF q.cacheOnly THEN Respond([q EXCEPT !.found = "miss"], 404, ErrorBody)
    ELSE IF q.prompt = <<>> THEN Respond([q EXCEPT !.found = "miss"], 400, ErrorBody)
    ELSE [q EXCEPT !.found = "miss", !.pc = "generate"]

\* a mutant: a hit writes the entry back with the current time
GetItemRefreshes(r) ==
    /\ req[r].pc = "lookup"
    /\ \/ /\ req' = [req EXCEPT ![r] = Respond([req[r] EXCEPT !.found = "fault"], 500, ErrorBody)]
          /\ store' = store
       \/ /\ req' = [req EXCEPT ![r] = AfterGetItem(req[r], store[req[r].key])]
          /\ store' = [k \in Keys |->
                          IF k = req[r].key /\ store[k] # NoItem
                          THEN [store[k] EXCEPT !.createdAt = clock] ELSE store[k]]
    /\ UNCHANGED <<clock, purgeKey, started, normVars, crudVars>>

\* GPT.py 73-91: table.get_item and what follows the answer; an exception
\* of the call is answered with 500
GetItem(r) ==
    /\ req[r].pc = "lookup"
    /\ \/ req' = [req EXCEPT ![r] = Respond([req[r] EXCEPT !.found = "fault"], 500, ErrorBody)]
       \/ req' = [req EXCEPT ![r] = AfterGetItem(req[r], store[req[r].key])]
    /\ UNCHANGED <<store, clock, purgeKey, started, normVars, crudVars>>

\* a mutant: the failure is cached as the entry
AfterClientErrorCached(q, now) ==
    [q EXCEPT !.pc = "put",
              !.item = Item(q.key, StrV(<<"e", "r", "r">>), q.promo, q.prompt, now)]

\* GPT.py 118-120 and 157-159: the client call raised
AfterClientError(q, now) == Respond(q, 502, ErrorBody)

\* GPT.py 93-112 and 134-151: client.chat.completions.create with the prompt
Generate(r) ==
    /\ req[r].pc = "generate"
    /\ LET q == [req[r] EXCEPT !.gen = @ + 1, !.sent = req[r].prompt]
       IN  \/ req' = [req EXCEPT ![r] = AfterClientError([q EXCEPT !.client = "raised"], clock)]
           \/ \E content \in GenTexts :
                  req' = [req EXCEPT ![r] =
                             AfterCompletion([q EXCEPT !.client = "ok"], content, clock)]
    /\ UNCHANGED <<store, clock, purgeKey, started, normVars, crudVars>>

\* GPT.py 114-120 and 153-159: table.put_item(Item=record)
PutItem(r) ==
    /\ req[r].pc = "put"
    /\ LET q == req[r]
       IN  \/ /\ req' = [req EXCEPT ![r] = Respond(q, 502, ErrorBody)]
              /\ store' = store
           \/ /\ ~HasFloat(q.item.response)
              /\ store' = [store EXCEPT ![q.key] = q.item]
              /\ req' = [req EXCEPT ![r] =
                            Respond([q EXCEPT !.puts = @ + 1], 200, ItemBody(q.item))]
    /\ UNCHANGED <<clock, purgeKey, started, normVars, crudVars>>

\* GPT.py 212: table.scan(ProjectionExpression='GPT'), one page
PurgeScan(r) ==
    /\ req[r].pc = "scan"
    /\ \/ req' = [req EXCEPT ![r] = Respond(req[r], 500, ErrorBody)]
       \/ \E page \in ScanPages(store) :
              req' = [req EXCEPT ![r] = [req[r] EXCEPT !.pc = "delete", !.scanned = page]]
    /\ UNCHANGED <<store, clock, purgeKey, started, normVars, crudVars>>

\* the table after delete_item for each key of D
Deleted(s, D) == [k \in Keys |-> IF k \in D THEN NoItem ELSE s[k]]

\* GPT.py 213-218 and 35: the batch of delete_item calls, flushed on leaving
\* the with block; a failing flush may have deleted some of the keys
PurgeDelete(r) ==
    /\ req[r].pc = "delete"
    /\ LET q == req[r]
       IN  \/ \E D \in SUBSET Range(q.scanned) :
                  /\ D # Range(q.scanned) \/ D = {}
                  /\ store' = Deleted(store, D)
                  /\ req' = [req EXCEPT ![r] = Respond(q, 500, ErrorBody)]
           \/ /\ store' = Deleted(store, Range(q.scanned))
              /\ req' = [req EXCEPT ![r] =
                            Respond([q EXCEPT !.deleted = Len(q.scanned)], 200, MessageBody)]
    /\ UNCHANGED <<clock, purgeKey, started, normVars, crudVars>>

\* GPT.py 220-229: list_gpt_entries
ListEntries(r) ==
    /\ req[r].pc = "list"
    /\ \/ req' = [req EXCEPT ![r] = Respond(req[r], 500, ErrorBody)]
       \/ \E page \in ScanPages(store) :
              LET items == [i \in 1..Len(page) |-> store[page[i]]]
              IN  req' = [req EXCEPT ![r] =
                             Respond([req[r] EXCEPT !.scanned = page], 200,
                                     ListBody(SortDesc(items)))]
    /\ UNCHANGED <<store, clock, purgeKey, started, normVars, crudVars>>

\* a mutant: the reply is written to the table under the message
ChatCached(r) ==
    /\ req[r].pc = "chat"
    /\ LET q == [req[r] EXCEPT !.gen = @ + 1, !.sent = req[r].prompt]
       IN  \/ /\ req' = [req EXCEPT ![r] = Respond([q EXCEPT !.client = "raised"], 502, ErrorBody)]
              /\ store' = store
           \/ \E content \in GenTexts :
                  /\ req' = [req EXCEPT ![r] =
                                Respond([q EXCEPT !.client = "ok"], 200, ChatBody(Strip(content)))]
                  /\ store' = [store EXCEPT ![<<"a">>] =
                                   Item(<<"a">>, StrV(Strip(content)), <<>>, q.prompt, clock)]
    /\ UNCHANGED <<clock, purgeKey, started, normVars, crudVars>>

\* GPT.py 168-186: the client call of chat_direct
Chat(r) ==
    /\ req[r].pc = "chat"
    /\ LET q == [req[r] EXCEPT !.gen = @ + 1, !.sent = req[r].prompt]
       IN  \/ req' = [req EXCEPT ![r] = Respond([q EXCEPT !.client = "raised"], 502, ErrorBody)]
           \/ \E content \in GenTexts :
                  req' = [req EXCEPT ![r] =
                             Respond([q EXCEPT !.client = "ok"], 200, ChatBody(Strip(content)))]
    /\ UNCHANGED <<store, clock, purgeKey, started, normVars, crudVars>>

\* GPT.py 111, 150: time passes between two readings of utcnow()
Tick ==
    /\ clock < MaxClock
    /\ clock' = clock + 1
    /\ UNCHANGED <<store, purgeKey, req, started, normVars, crudVars>>

-----------------------------------------------------------------------------
(* User.py: the User table and the handler's routes *)

Emails == {<<"a">>, <<"b">>}
RawEmails == {<<>>, <<"a">>, <<SPACE, "A">>, <<"b">>}

\* in the place of a body field: the key is not in the body
Absent == <<"<absent>">>

UserRec(email, firstName, lastName, business, promo, createdAt, updatedAt) ==
    [email |-> email, firstName |-> firstName, lastName |-> lastName,
     business |-> business, promo |-> promo, createdAt |-> createdAt,
     updatedAt |-> updatedAt]

NoUser == UserRec(<<>>, <<>>, <<>>, <<>>, <<>>, NoCreatedAt, NoCreatedAt)

\* a user an earlier create_user wrote
SeedUser(e) == UserRec(e, <<"f">>, <<"l">>, <<"c">>, <<>>, 0, NoCreatedAt)

NoUsers == [e \in Emails |-> NoUser]

\* the body of a request: each field a text, or Absent
\* purge: queryStringParameters carries purge = "true"
UserEvent(method, email, newEmail, firstName, lastName, business, purge) ==
    [method |-> method, email |-> email, newEmail |-> newEmail,
     firstName |-> firstName, lastName |-> lastName, business |-> business,
     purge |-> purge]

UserEvents ==
    {UserEvent(m, e, n, f, Absent, b, FALSE) :
        m \in {"PUT", "PATCH"}, e \in RawEmails, n \in RawEmails \cup {Absent},
        f \in {Absent, <<"n", SPACE>>}, b \in {Absent, <<"z">>}}
    \cup {UserEvent("POST", e, Absent, f, <<"l">>, <<"c">>, FALSE) :
             e \in RawEmails, f \in {Absent, <<"f">>}}
    \cup {UserEvent("DELETE", e, Absent, Absent, Absent, Absent, g) :
             e \in RawEmails \cup {Absent}, g \in BOOLEAN}
    \cup {UserEvent("HEAD", Absent, Absent, Absent, Absent, Absent, g) : g \in BOOLEAN}

\* body.get(key, "")
FieldOr(x, default) == IF x = Absent THEN default ELSE x

IdleUserReq ==
    [pc |-> "idle", op |-> "none", method |-> "", purge |-> FALSE,
     email |-> <<>>, newEmail |-> <<>>,
     firstName |-> Absent, lastName |-> Absent, business |-> Absent,
     item |-> NoUser, status |-> 0, user |-> NoUser]

UserRespond(q, status, user) == [q EXCEPT !.pc = "done", !.status = status, !.user = user]

\* User.py 96-99: update_fields[key] = body[key].strip() for the keys in body
StripField(x) == IF x = Absent THEN Absent ELSE Strip(x)

\* User.py 88-102: the body of update_user and its checks
update_user(ev) ==
    LET q == [IdleUserReq EXCEPT !.op = "update",
                                 !.email = Lower(Strip(FieldOr(ev.email, <<>>))),
                                 !.newEmail = Lower(Strip(FieldOr(ev.newEmail, <<>>))),
                                 !.firstName = StripField(ev.firstName),
                                 !.lastName = StripField(ev.lastName),
                                 !.business = StripField(ev.business)]
    IN  IF q.email = <<>> THEN UserRespond(q, 400, NoUser)
        ELSE IF q.firstName = Absent /\ q.lastName = Absent /\ q.business = Absent
                /\ q.newEmail = <<>>
        THEN UserRespond(q, 400, NoUser)
        ELSE [q EXCEPT !.pc = "get"]

\* User.py 63-82: the body of create_user, its check and the record
create_user(ev, now) ==
    LET q == [IdleUserReq EXCEPT !.op = "create",
                                 !.email = Lower(Strip(FieldOr(ev.email, <<>>))),
                                 !.firstName = Strip(FieldOr(ev.firstName, <<>>)),
                                 !.lastName = Strip(FieldOr(ev.lastName, <<>>)),
                                 !.business = Strip(FieldOr(ev.business, <<>>))]
    IN  IF q.email = <<>> \/ q.firstName = <<>> \/ q.lastName = <<>> \/ q.business = <<>>
        THEN UserRespond(q, 400, NoUser)
        ELSE [q EXCEPT !.pc = "put",
                       !.item = UserRec(q.email, q.firstName, q.lastName, q.business,
                                        <<>>, now, NoCreatedAt)]

\* User.py 138-143: the parameter of delete_user and its check
delete_user(ev) ==
    LET q == [IdleUserReq EXCEPT !.op = "delete",
                                 !.email = Lower(Strip(FieldOr(ev.email, <<>>)))]
    IN  IF q.email = <<>> THEN UserRespond(q, 400, NoUser) ELSE [q EXCEPT !.pc = "delete"]

\* User.py 151-153: purge_users, up to its scan and batch of deletes
purge_users == [IdleUserReq EXCEPT !.op = "purge", !.pc = "purge"]

\* User.py 14-29: the branches of the dispatch in the order of the code (GET
\* is left out: it only reads)
UserDispatch(ev, now) ==
    IF ev.method = "POST" THEN create_user(ev, now)
    ELSE IF ev.method \in {"PUT", "PATCH"} THEN update_user(ev)
    ELSE IF ev.method = "DELETE" THEN delete_user(ev)
    ELSE IF ev.method = "DELETE" /\ ev.purge THEN purge_users
    ELSE UserRespond([IdleUserReq EXCEPT !.op = "other"], 405, NoUser)

\* User.py 11-31: the handler; the request keeps its method and whether its
\* query asked for a purge
user_lambda_handler(ev, now) ==
    [UserDispatch(ev, now) EXCEPT !.method = ev.method, !.purge = ev.purge]

\* User.py 112-113: item.update(update_fields); item["updatedAt"] = now
Updated(item, q, now) ==
    [item EXCEPT !.firstName = FieldOr(q.firstName, @),
                 !.lastName = FieldOr(q.lastName, @),
                 !.business = FieldOr(q.business, @),
                 !.updatedAt = now]

UserInit ==
    /\ users \in {[e \in Emails |-> IF e \in S THEN SeedUser(e) ELSE NoUser] : S \in SUBSET Emails}
    /\ ureq = IdleUserReq
    /\ uStarted = 0

UserIdle ==
    /\ users = NoUsers
    /\ ureq = IdleUserReq
    /\ uStarted = 0

\* User.py 11-31: an invocation starts and runs up to its first table call
UserInvoke ==
    /\ ureq.pc \in {"idle", "done"}
    /\ uStarted < MaxUserRequests
    /\ \E q \in {user_lambda_handler(ev, clock) : ev \in UserEvents} : ureq' = q
    /\ uStarted' = uStarted + 1
    /\ UNCHANGED <<users, gwVars, normVars, memberVars>>

\* User.py 107-117, after get_item answered with item
AfterUserGet(q, item, now) ==
    IF item = NoUser THEN UserRespond(q, 404, NoUser)
    ELSE IF q.newEmail # <<>>
    THEN [q EXCEPT !.pc = "put", !.item = [Updated(item, q, now) EXCEPT !.email = q.newEmail]]
    ELSE [q EXCEPT !.pc = "update", !.item = Updated(item, q, now)]

\* User.py 106-117 and 135-136: table.get_item of update_user
UserGetItem ==
    /\ ureq.pc = "get"
    /\ \/ ureq' = UserRespond(ureq, 500, NoUser)
       \/ ureq' = AfterUserGet(ureq, users[ureq.email], clock)
    /\ UNCHANGED <<users, uStarted, gwVars, normVars, memberVars>>

\* User.py 83-86 and 118: table.put_item of create_user and of update_user
UserPutItem ==
    /\ ureq.pc = "put"
    /\ \/ /\ ureq' = UserRespond(ureq, 500, NoUser)
          /\ users' = users
       \/ /\ users' = [users EXCEPT ![ureq.item.email] = ureq.item]
          /\ ureq' = IF ureq.op = "create" THEN UserRespond(ureq, 201, ureq.item)
                     ELSE [ureq EXCEPT !.pc = "delete"]
    /\ UNCHANGED <<uStarted, gwVars, normVars, memberVars>>

\* User.py 119-120 and 146-149: table.delete_item of update_user, with the
\* old email, and of delete_user; User.py 153-159: the scan and the batch of
\* deletes of purge_users
UserDeleteItem ==
    /\ ureq.pc \in {"delete", "purge"}
    /\ \/ /\ ureq' = UserRespond(ureq, 500, NoUser)
          /\ users' = users
       \/ /\ ureq.pc = "delete"
          /\ users' = [users EXCEPT ![ureq.email] = NoUser]
          /\ ureq' = UserRespond(ureq, 200, ureq.item)
       \/ /\ ureq.pc = "purge"
          /\ users' = NoUsers
          /\ ureq' = UserRespond(ureq, 200, NoUser)
    /\ UNCHANGED <<uStarted, gwVars, normVars, memberVars>>

\* User.py 123-133: table.update_item, SET of the fields and of updatedAt on
\* the stored item
UserUpdateItem ==
    /\ ureq.pc = "update"
    /\ \/ /\ ureq' = UserRespond(ureq, 500, NoUser)
          /\ users' = users
       \/ /\ users' = [users EXCEPT ![ureq.email] = Updated(@, ureq, ureq.item.updatedAt)]
          /\ ureq' = UserRespond(ureq, 200, ureq.item)
    /\ UNCHANGED <<uStarted, gwVars, normVars, memberVars>>

-----------------------------------------------------------------------------
(* Memberships.py: the Memberships table and create_membership *)

MemberSlots == {1, 2}
Tiers == {<<"x">>, <<"y">>}
MemberRawEmails == {<<"a">>, <<SPACE, "A">>, <<"b">>}
LimitTexts == {<<"5">>, <<"x">>}

MemberRec(email, gptLimit, tier, lastUpdated) ==
    [email |-> email, gptLimit |-> gptLimit, tier |-> tier, lastUpdated |-> lastUpdated]

NoMember == MemberRec(<<>>, 0, <<>>, NoCreatedAt)

NoMembers == [e \in Emails |-> NoMember]

\* the body of a POST: complete = every required key is in the body
MemberEvent(method, complete, email, gptLimit, tier) ==
    [method |-> method, complete |-> complete, email |-> email,
     gptLimit |-> gptLimit, tier |-> tier]

MemberEvents ==
    {MemberEvent("POST", c, e, g, t) :
        c \in BOOLEAN, e \in MemberRawEmails, g \in LimitTexts, t \in Tiers}
    \cup {MemberEvent("HEAD", FALSE, <<"a">>, <<"5">>, <<"x">>)}

IdleMemberReq ==
    [pc |-> "idle", op |-> "none", email |-> <<>>, gptLimit |-> <<>>, tier |-> <<>>,
     item |-> NoMember, status |-> 0, data |-> NoMember]

MemberRespond(q, status, data) ==
    [q EXCEPT !.pc = "done", !.status = status, !.data = data]

\* Memberships.py 30-39: the body of create_membership, its check and the key
create_membership(ev) ==
    LET q == [IdleMemberReq EXCEPT !.op = "create"]
    IN  IF ~ev.complete THEN MemberRespond(q, 400, NoMember)
        ELSE [q EXCEPT !.pc = "get", !.email = Strip(Lower(ev.email)),
                       !.gptLimit = ev.gptLimit, !.tier = ev.tier]

\* Memberships.py 12-26: the dispatch on the method (only POST is followed
\* into its function)
member_lambda_handler(ev) ==
    IF ev.method = "POST" THEN create_membership(ev)
    ELSE MemberRespond([IdleMemberReq EXCEPT !.op = "other"], 405, NoMember)

MemberInit ==
    /\ memberships \in {[e \in Emails |-> IF e \in S THEN MemberRec(e, 1, <<"s">>, 0) ELSE NoMember] :
                       S \in {{}, {<<"b">>}}}
    /\ mreq = [r \in MemberSlots |-> IdleMemberReq]
    /\ mStarted = 0

MemberIdle ==
    /\ memberships = NoMembers
    /\ mreq = [r \in MemberSlots |-> IdleMemberReq]
    /\ mStarted = 0

\* Memberships.py 12-39: an invocation starts and runs up to get_item
MemberInvoke(r) ==
    /\ mreq[r].pc \in {"idle", "done"}
    /\ mStarted < MaxMemberRequests
    /\ \E q \in {member_lambda_handler(ev) : ev \in MemberEvents} :
          mreq' = [mreq EXCEPT ![r] = q]
    /\ mStarted' = mStarted + 1
    /\ UNCHANGED <<memberships, gwVars, normVars, userVars>>

\* Memberships.py 42-54, after get_item answered with existing: the 409, the
\* int() of the numbers (ValueError ends in the 500 of line 26), the item
AfterMemberGet(q, existing, limit, now) ==
    IF existing # NoMember THEN MemberRespond(q, 409, NoMember)
    ELSE IF ~limit.ok THEN MemberRespond(q, 500, NoMember)
    ELSE [q EXCEPT !.pc = "put", !.item = MemberRec(q.email, limit.v.n, q.tier, now)]

\* Memberships.py 41-54 and 25-26: table.get_item of create_membership
MemberGetItem(r) ==
    /\ mreq[r].pc = "get"
    /\ \/ mreq' = [mreq EXCEPT ![r] = MemberRespond(@, 500, NoMember)]
       \/ mreq' = [mreq EXCEPT ![r] = AfterMemberGet(@, memberships[@.email],
                                                     PyInt(@.gptLimit), clock)]
    /\ UNCHANGED <<memberships, mStarted, gwVars, normVars, userVars>>

\* Memberships.py 56-57 and 25-26: table.put_item(Item=item), with no
\* condition on the item being absent
MemberPutItem(r) ==
    /\ mreq[r].pc = "put"
    /\ \/ /\ mreq' = [mreq EXCEPT ![r] = MemberRespond(@, 500, NoMember)]
          /\ memberships' = memberships
       \/ /\ memberships' = [memberships EXCEPT ![mreq[r].email] = mreq[r].item]
          /\ mreq' = [mreq EXCEPT ![r] = MemberRespond(@, 201, @.item)]
    /\ UNCHANGED <<mStarted, gwVars, normVars, userVars>>

GwIdle ==
    /\ store = EmptyStore
    /\ clock = 0
    /\ purgeKey = NoSecret
    /\ req = [r \in Slots |-> IdleReq]
    /\ started = 0

Init == GwInit /\ NormIdle /\ UserIdle /\ MemberIdle

Next ==
    \/ \E r \in Slots :
          \/ Invoke(r)
          \/ GetItem(r)
          \/ Generate(r)
          \/ PutItem(r)
          \/ PurgeScan(r)
          \/ PurgeDelete(r)
          \/ ListEntries(r)
          \/ Chat(r)
    \/ Tick

Spec == Init /\ [][Next]_vars

NormInit ==
    /\ GwIdle
    /\ nSrc \in NormInputs
    /\ nRaw = InputText(nSrc)
    /\ nPc = "strip"
    /\ nParses = 0
    /\ nOut = NoValue
    /\ UserIdle
    /\ MemberIdle

NormNext == NormStrip \/ NormLoop \/ NormNumber

SpecNorm == NormInit /\ [][NormNext]_vars

UserSpecInit == GwIdle /\ NormIdle /\ UserInit /\ MemberIdle

UserNext ==
    \/ UserInvoke
    \/ UserGetItem
    \/ UserPutItem
    \/ UserDeleteItem
    \/ UserUpdateItem
    \/ Tick

SpecUser == UserSpecInit /\ [][UserNext]_vars

MemberSpecInit == GwIdle /\ NormIdle /\ UserIdle /\ MemberInit

MemberNext ==
    \/ \E r \in MemberSlots :
          \/ MemberInvoke(r)
          \/ MemberGetItem(r)
          \/ MemberPutItem(r)
    \/ Tick

SpecMember == MemberSpecInit /\ [][MemberNext]_vars

-----------------------------------------------------------------------------
(* The gateway's properties, checked under Spec *)

\* slot r takes the step that get_item's answer decides, and the call
\* itself has not raised
LookupAnswered(r) ==
    /\ req[r].op = "get"
    /\ req[r].pc = "lookup"
    /\ req'[r] # req[r]
    /\ req'[r].found # "fault"

\* C1: a get_or_generate request whose trimmed, lowercased keyword is
\* non-empty and has an entry in the table is answered 200 with exactly that
\* entry, without a call of the generation client and without a write,
\* whatever gptInput, promo and cacheOnly are.
C1_CacheHit ==
    [][\A r \in Slots :
          (LookupAnswered(r) /\ store[req[r].key] # NoItem) =>
              /\ req[r].key # <<>>
              /\ req'[r].pc = "done"
              /\ req'[r].status = 200
              /\ req'[r].body = ItemBody(store[req[r].key])
              /\ req'[r].gen = 0
              /\ req'[r].puts = 0
              /\ store' = store]_vars

\* a hit answered although the request carried a prompt and no cacheOnly
C1_Witness ==
    \E r \in Slots :
        /\ req[r].op = "get"
        /\ req[r].found = "hit"
        /\ req[r].prompt # <<>>
        /\ ~req[r].cacheOnly
        /\ req[r].status = 200
        /\ req[r].body = ItemBody(SeedItem(req[r].key))
        /\ req[r].gen = 0

\* C2: a get_or_generate request whose keyword has no entry in the table and
\* whose cacheOnly flag is true is answered 404, without a call of the
\* generation client and without a write.
C2_CacheOnlyMiss ==
    [][\A r \in Slots :
          (LookupAnswered(r) /\ store[req[r].key] = NoItem /\ req[r].cacheOnly) =>
              /\ req'[r].pc = "done"
              /\ req'[r].status = 404
              /\ req'[r].body.kind = "error"
              /\ req'[r].gen = 0
              /\ req'[r].puts = 0
              /\ store' = store]_vars

\* a cache-only miss answered 404 although the request carried a prompt
C2_Witness ==
    \E r \in Slots :
        /\ req[r].op = "get"
        /\ req[r].found = "miss"
        /\ req[r].cacheOnly
        /\ req[r].prompt # <<>>
        /\ req[r].status = 404
        /\ req[r].gen = 0

\* C3 as stated: get_or_generate on a key without entry, with a non-empty
\* prompt and cacheOnly false, the generation client returning text: the
\* client is called once with the prompt, one entry is written under the
\* key and returned as a success.
C3_EndToEndFill ==
    \A r \in Slots :
        (/\ req[r].op = "get"
         /\ req[r].pc = "done"
         /\ req[r].found = "miss"
         /\ req[r].client = "ok") =>
            /\ req[r].gen = 1
            /\ req[r].sent = req[r].prompt
            /\ req[r].status = 200
            /\ req[r].puts = 1
            /\ req[r].body.kind = "item"
            /\ req[r].body.item.GPT = req[r].key

\* slot r takes the step on which its call of the generation client raises
ClientRaised(r) ==
    /\ req[r].op \in {"get", "post"}
    /\ req[r].pc = "generate"
    /\ req'[r].client = "raised"

\* C4: when the call of the generation client fails inside get_or_generate
\* or generate_and_store, the request is answered 502 and nothing is
\* written: the table is as it was.
C4_NoNegativeCaching ==
    [][\A r \in Slots :
          ClientRaised(r) =>
              /\ req'[r].pc = "done"
              /\ req'[r].status = 502
              /\ req'[r].body.kind = "error"
              /\ req'[r].puts = 0
              /\ store' = store]_vars

\* a get and a post whose client call raised, both answered 502
C4_Witness ==
    \E r1, r2 \in Slots :
        /\ req[r1].op = "get" /\ req[r1].client = "raised" /\ req[r1].status = 502
        /\ req[r2].op = "post" /\ req[r2].client = "raised" /\ req[r2].status = 502
        /\ req[r1].puts = 0 /\ req[r2].puts = 0

\* C5 as stated: an entry once written is changed by no request (lookup,
\* generate-and-store, chat, list); only a purge alters or removes it.
C5_ImmutableButPurge ==
    [][\A k \in Keys :
          (store[k] # NoItem /\ store'[k] # store[k]) =>
              \E r \in Slots :
                  /\ req[r].op = "purge"
                  /\ req[r].pc = "delete"
                  /\ req'[r].pc = "done"]_vars

\* C5 corrected: an entry once written is changed by no lookup, chat, list or
\* refused purge; it is replaced when the put_item of a generate request for
\* its key runs, which generate_and_store reaches without any lookup, and
\* it is removed by the delete of a purge whose token was accepted.
C5_ChangedByPutOrPurge ==
    [][\A k \in Keys :
          (store[k] # NoItem /\ store'[k] # store[k]) =>
              \E r \in Slots :
                  /\ req'[r] # req[r]
                  /\ \/ /\ req[r].pc = "put"
                        /\ req[r].key = k
                        /\ req[r].found \in {"none", "miss"}
                        /\ store'[k] = req[r].item
                     \/ /\ req[r].pc = "delete"
                        /\ req[r].op = "purge"
                        /\ PurgeAuthorized(req[r].auth, purgeKey)
                        /\ k \in Range(req[r].scanned)
                        /\ store'[k] = NoItem]_vars

\* generate_and_store has replaced the entry of one key while a lookup of
\* it was served and the entry of another key stayed as written
C5_Witness ==
    \E r1, r2 \in Slots :
        /\ req[r1].op = "post" /\ req[r1].pc = "done" /\ req[r1].puts = 1
        /\ store[req[r1].key] = req[r1].item
        /\ store[req[r1].key] # SeedItem(req[r1].key)
        /\ req[r2].op = "get" /\ req[r2].found = "hit" /\ req[r2].key = req[r1].key
        /\ req[r2].body.item = SeedItem(req[r2].key)
        /\ store[<<"c">>] = SeedItem(<<"c">>)

\* C6 as stated: two get_or_generate requests for one key without entry,
\* both past the lookup before either writes: the generation client is
\* called twice, both write, and the table ends with one entry for the key,
\* the record of one of the two writes.
C6_SameKeyRace ==
    \A r1, r2 \in Slots :
        (/\ r1 # r2
         /\ req[r1].op = "get" /\ req[r2].op = "get"
         /\ req[r1].key = req[r2].key
         /\ req[r1].pc = "done" /\ req[r2].pc = "done"
         /\ req[r1].found = "miss" /\ req[r2].found = "miss"
         /\ req[r1].client = "ok" /\ req[r2].client = "ok") =>
            /\ req[r1].gen + req[r2].gen = 2
            /\ req[r1].puts = 1 /\ req[r2].puts = 1
            /\ store[req[r1].key] # NoItem
            /\ store[req[r1].key] \in {req[r1].item, req[r2].item}

\* slot r takes a purge request whose token is not the configured secret
PurgeRefused(r) ==
    /\ req'[r] # req[r]
    /\ req'[r].op = "purge"
    /\ req'[r].auth # purgeKey

\* C7: a purge request whose token (empty when the parameter is missing)
\* differs from the configured secret (or no secret is configured) is
\* answered 403 at once: nothing is scanned or deleted, the table is as it
\* was, and neither the list nor the lookup runs for it.
C7_UnauthorizedPurge ==
    [][\A r \in Slots :
          PurgeRefused(r) =>
              /\ req'[r].pc = "done"
              /\ req'[r].status = 403
              /\ req'[r].body = ErrorBody
              /\ req'[r].scanned = <<>>
              /\ req'[r].deleted = 0
              /\ req'[r].found = "none"
              /\ store' = store]_vars

\* a purge without token refused when no secret is configured, the table
\* still full
C7_Witness ==
    \E r \in Slots :
        /\ req[r].op = "purge"
        /\ req[r].auth = <<>>
        /\ purgeKey = NoSecret
        /\ req[r].status = 403
        /\ store = SeededStore

\* C8 as stated: a purge with the right token, no other request running or
\* run and no failure of the table, leaves the table empty when it answers
\* 200, for every size of the table: it has deleted as many entries as were
\* present, none is left.
C8_AuthorizedPurge ==
    \A r \in Slots :
        (/\ req[r].op = "purge"
         /\ req[r].pc = "done"
         /\ req[r].status = 200
         /\ \A o \in Slots \ {r} : req[o] = IdleReq
         /\ started = 1) =>
            /\ Present(store) = {}
            /\ Cardinality(Present(store)) + req[r].deleted = req[r].deleted

-----------------------------------------------------------------------------
(* The normalizer's properties, checked under SpecNorm *)

\* int(raw), or float(raw) when raw holds a point, accepts the text
NumericLooking(s) == IF Contains(s, ".") THEN PyFloat(s).ok ELSE PyInt(s).ok

\* the number int(raw) or float(raw) gives
NumberOf(s) == IF Contains(s, ".") THEN PyFloat(s).v ELSE PyInt(s).v

ValidJson(s) == JsonLoads(s).ok

\* C9 as stated: numeric coercion is attempted only when no parse of the
\* trimmed input ever succeeded; once a parse has yielded a string and the
\* re-parse of the unwrapped text fails, the result is that unwrapped text
\* itself and not a number derived from it.
C9_CoercionOnlyWithoutParse ==
    (nPc \in {"return_number", "return_raw"} /\ nParses >= 1)
        => (nPc = "return_raw" /\ nOut = StrV(nRaw))

\* C9 corrected: the loop ends on the first text that json.loads rejects,
\* and numeric coercion is then attempted on that text whether or not an
\* earlier parse succeeded: an unwrapped text that int() accepts (float()
\* when it holds a point) comes back as that number, and only a text that
\* neither json.loads nor the coercion accepts comes back as itself; a
\* value returned from the loop is never a string.
C9_TierOrder ==
    /\ nPc = "number" => ~ValidJson(nRaw)
    /\ nPc \in {"return_number", "return_raw"} =>
           /\ ~ValidJson(nRaw)
           /\ nOut = IF NumericLooking(nRaw) THEN NumberOf(nRaw) ELSE StrV(nRaw)
           /\ (nPc = "return_number") = NumericLooking(nRaw)
           /\ (nPc = "return_number") = (nOut.t \in {"int", "float"})
    /\ nPc = "return_parsed" =>
           /\ nParses >= 1
           /\ nOut.t \in {"int", "float", "list", "map"}
           /\ nOut = JsonLoads(nRaw).v

\* a text unwrapped from a JSON string literal, rejected by the re-parse and
\* coerced to a number
C9_Witness ==
    /\ nPc = "return_number"
    /\ nParses >= 1
    /\ nSrc.kind = "value"
    /\ nSrc.v.t = "str"
    /\ nSrc.layers = 0

\* the input of a round trip: jsonEncode(v) with no further wrapping, and
\* normalize has returned
RoundTripDone == NormDone /\ nSrc.kind = "value" /\ nSrc.layers = 0

\* the same, normalize having returned or raised
RoundTripEnded == (NormDone \/ nPc = "raised") /\ nSrc.kind = "value" /\ nSrc.layers = 0

\* the number of arrays and objects around the innermost value of v
RECURSIVE Nesting(_)

MaxNesting(v, S) == IF S = {} THEN 0 ELSE CHOOSE n \in S : \A x \in S : x <= n

Nesting(v) ==
    IF v.t \in {"list", "map"}
    THEN 1 + MaxNesting(v, {Nesting(v.items[i]) : i \in 1..Len(v.items)})
    ELSE IF v.t = "pair" THEN Nesting(v.items[1])
    ELSE 0

C11_NeverRaises ==
    /\ nPc # "raised"
    /\ NormDone => nOut.t \in {"int", "float", "str", "list", "map"}

\* C12: in every state of the table, the response of every entry that
\* get_or_generate or generate_and_store wrote is a canonical value (a
\* mapping, a sequence, a string or a number), and when it is a string that
\* string is not valid JSON.
C12_StoredResponse ==
    \A k \in Keys :
        store[k] # NoItem =>
            /\ store[k].response.t \in {"int", "float", "str", "list", "map"}
            /\ store[k].response.t = "str" => ~ValidJson(store[k].response.s)

\* generate_and_store has written an entry whose response is a string and,
\* under another key, one whose response is a sequence
C12_Witness ==
    \E r1, r2 \in Slots :
        /\ req[r1].op = "post" /\ req[r1].puts = 1 /\ store[req[r1].key] = req[r1].item
        /\ req[r1].item.response = StrV(<<"h", "i">>)
        /\ req[r2].op = "post" /\ req[r2].puts = 1 /\ store[req[r2].key] = req[r2].item
        /\ req[r2].item.response.t = "list"

\* C13 as stated: in get_or_generate a failure of the table (the lookup, or
\* the write after a generation that succeeded) is answered 500, and 502 is
\* answered only when the call of the generation client itself failed; when
\* the lookup fails the client is not called.
C13_FailureClasses ==
    \A r \in Slots :
        (req[r].op = "get" /\ req[r].pc = "done") =>
            /\ req[r].found = "fault" => (req[r].status = 500 /\ req[r].gen = 0)
            /\ req[r].status = 502 => req[r].client = "raised"
            /\ (req[r].item # NoItem /\ req[r].puts = 0) => req[r].status = 500

\* C14 as stated: for every inbound event, a missing or null httpMethod and
\* a missing, null or malformed body included, lambda_handler returns an
\* envelope whose status is one of 200, 400, 403, 404, 405, 500, 502; no
\* exception leaves the handler.
C14_NoUnhandledFault ==
    \A r \in Slots :
        req[r].pc = "done" =>
            /\ req[r].body.kind # "exception"
            /\ req[r].status \in {200, 400, 403, 404, 405, 500, 502}

\* the position of key k in the page the scan returned
PageIndex(page, k) == CHOOSE i \in 1..Len(page) : page[i] = k

\* C15: list_gpt_entries returns the entries the scan returned, sorted by
\* createdAt in descending order with a missing createdAt counted as 0,
\* entries of equal createdAt in the order of the scan; the table is left
\* as it was.
C15_ListOrdering ==
    [][\A r \in Slots :
          (req[r].pc = "list" /\ req'[r].status = 200) =>
              LET out == req'[r].body.list
                  page == req'[r].scanned
              IN  /\ req'[r].body.kind = "list"
                  /\ Len(out) = Len(page)
                  /\ \A i \in 1..Len(page) : \E j \in 1..Len(out) : out[j] = store[page[i]]
                  /\ \A i, j \in 1..Len(out) :
                         i < j =>
                             /\ SortKey(out[i]) >= SortKey(out[j])
                             /\ SortKey(out[i]) = SortKey(out[j]) =>
                                    PageIndex(page, out[i].GPT) < PageIndex(page, out[j].GPT)
                  /\ store' = store]_vars

\* a list of two entries: the newer one first although the scan returned it
\* second, the one without createdAt last
C15_Witness ==
    \E r \in Slots :
        /\ req[r].op = "list" /\ req[r].status = 200
        /\ Len(req[r].body.list) = 2
        /\ req[r].body.list[1].GPT = req[r].scanned[2]
        /\ req[r].body.list[1].createdAt = 1
        /\ req[r].body.list[2].createdAt = NoCreatedAt

\* C16: a chat request (POST with mode = chat), whether it succeeds, is
\* refused for an empty message (400) or fails upstream (502), neither reads
\* nor writes the table: the table is the same before and after each of
\* its steps.
C16_ChatStateless ==
    [][\A r \in Slots :
          (req'[r].op = "chat" /\ req'[r] # req[r]) =>
              /\ store' = store
              /\ req'[r].found = "none"
              /\ req'[r].scanned = <<>>
              /\ req'[r].item = NoItem
              /\ req'[r].puts = 0
              /\ req'[r].deleted = 0
              /\ req'[r].pc = "done" => req'[r].status \in {200, 400, 502}]_vars

\* a chat answered 200 and one answered 502 over a full table
C16_Witness ==
    \E r1, r2 \in Slots :
        /\ req[r1].op = "chat" /\ req[r1].status = 200 /\ req[r1].body.kind = "chat"
        /\ req[r1].gen = 1
        /\ req[r2].op = "chat" /\ req[r2].status = 502
        /\ store = SeededStore

\* C17 as stated: for every JSON value v that is no string (a mapping, a
\* sequence, a number) and every number k >= 1 of string-encoding layers
\* around jsonEncode(v), normalize returns v.
C17_MultiLayerUnwrap ==
    (/\ NormDone \/ nPc = "raised"
     /\ nSrc.kind = "value"
     /\ nSrc.v.t \in {"int", "float", "list", "map"}
     /\ nSrc.layers >= 1) =>
        (NormDone /\ nOut = nSrc.v)

\* slot r takes a new request
Invoked(r) == req[r].pc \in {"idle", "done"} /\ req'[r] # req[r]

\* the answer 400 of a request that has called no client and written nothing
Refused(q) == q.pc = "done" /\ q.status = 400 /\ q.gen = 0 /\ q.puts = 0 /\ q.item = NoItem

\* C18: get_or_generate with a keyword that is empty once trimmed and
\* lowercased, get_or_generate on a miss with cacheOnly false and an empty
\* prompt, and generate_and_store with an empty keyword or prompt are each
\* answered 400 without a call of the client and without a write; so every
\* key a request writes under is non-empty, trimmed and lowercase.
C18_Validation ==
    [][\A r \in Slots :
          /\ (Invoked(r) /\ req'[r].op = "get" /\ req'[r].key = <<>>) =>
                 (Refused(req'[r]) /\ req'[r].found = "none" /\ store' = store)
          /\ (Invoked(r) /\ req'[r].op = "post"
                 /\ (req'[r].key = <<>> \/ req'[r].prompt = <<>>)) =>
                 (Refused(req'[r]) /\ req'[r].found = "none" /\ store' = store)
          /\ (LookupAnswered(r) /\ store[req[r].key] = NoItem
                 /\ ~req[r].cacheOnly /\ req[r].prompt = <<>>) =>
                 (Refused(req'[r]) /\ store' = store)
          /\ req'[r].pc \in {"lookup", "generate", "put"} =>
                 /\ req'[r].key # <<>>
                 /\ Strip(req'[r].key) = req'[r].key
                 /\ Lower(req'[r].key) = req'[r].key
          /\ req'[r].pc = "put" => req'[r].item.GPT = req'[r].key
          /\ \A k \in Keys : (store'[k] # store[k] /\ store'[k] # NoItem) => store'[k].GPT = k]_vars

\* a lookup that missed refused for its empty prompt, and a
\* generate_and_store refused for its empty keyword
C18_Witness ==
    \E r1, r2 \in Slots :
        /\ req[r1].op = "get" /\ req[r1].found = "miss" /\ req[r1].prompt = <<>>
        /\ req[r1].status = 400 /\ req[r1].gen = 0
        /\ req[r2].op = "post" /\ req[r2].key = <<>> /\ req[r2].prompt # <<>>
        /\ req[r2].status = 400 /\ req[r2].gen = 0

-----------------------------------------------------------------------------
(* The properties of User.py, checked under SpecUser *)

UpdateAnswered200 == ureq.op = "update" /\ ureq.pc = "done" /\ ureq.status = 200

\* C19: whenever update_user returns 200 for an existing user, whatever
\* newEmail is (absent, another email, or the current email), the table
\* afterwards holds the returned user record under the email of that record,
\* and holds no record under the old email when the email changed.
C19_UpdateKeepsUser ==
    UpdateAnswered200 =>
        /\ users[ureq.user.email] = ureq.user
        /\ ureq.user.email # ureq.email => users[ureq.email] = NoUser

PurgeAnswered == ureq.method = "DELETE" /\ ureq.purge /\ ureq.pc = "done"

\* C21: a DELETE request whose query parameters carry purge = "true" is
\* dispatched to purge_users and deletes all user records.
C21_PurgeRoute ==
    PurgeAnswered =>
        /\ ureq.op = "purge"
        /\ ureq.status = 200 => users = NoUsers

-----------------------------------------------------------------------------
(* The properties of Memberships.py, checked under SpecMember *)

Created(r) == mreq[r].op = "create" /\ mreq[r].pc = "done" /\ mreq[r].status = 201

\* C20: create_membership for an email that has a membership returns 409 and
\* leaves the stored membership unchanged; of two concurrent create_membership
\* requests for one email at most one returns 201, and the membership the one
\* that returned 201 wrote is not overwritten by the other.
C20_NeverOverwrites ==
    /\ [](\A r1, r2 \in MemberSlots :
            (r1 # r2 /\ Created(r1) /\ Created(r2))
                => mreq[r1].email # mreq[r2].email)
    /\ [][\A e \in Emails : memberships[e] # NoMember => memberships'[e] = memberships[e]]_vars
    /\ [][\A r \in MemberSlots :
            (mreq[r].pc = "get" /\ memberships[mreq[r].email] # NoMember
             /\ mreq'[r].pc = "done")
                => mreq'[r].status \in {409, 500}]_vars

=============================================================================
